---------------------------- MODULE Spec2Model ----------------------------
(* Model of src/auto_mute.py: the main thread (configuration, tray shell,  *)
(* quit handler), the daemon monitor thread (monitor_loop, one step per    *)
(* statement), the audio endpoint it drives and an external actor that can *)
(* change the endpoint as well.                                            *)
(*                                                                         *)
(* Units: every time value (idle_sec, idle_threshold) is held in           *)
(* thousandths of a second, so that idle_ms / 1000.0 >= idle_minutes * 60  *)
(* is compared as idle_ms >= idle_minutes * 60000 on integers.  A scalar   *)
(* volume k / VolumeSteps is held as the integer k.                        *)
EXTENDS Integers, Sequences, FiniteSets, TLC

-----------------------------------------------------------------------------
(* Bounds *)

\* Width of the tick counter (GetTickCount, dwTime) in the model.
TickBits == 20

\* The scalar volume takes the values 0/VolumeSteps .. VolumeSteps/VolumeSteps.
VolumeSteps == 2

\* Cap of the after-quit counters (the claims bound them by 1).
MaxAfterQuit == 2

-----------------------------------------------------------------------------
(* Values *)

\* saved_volume = None
None == -1

TickModulus == 2 ^ TickBits
TickHalf == 2 ^ (TickBits - 1)

Volumes == 0 .. VolumeSteps

\* Raw values of the tick counter at the moment of a sample.
TickSamples == {400, 1500, 1600, 301000, TickHalf + 1000}

\* Raw values of LASTINPUTINFO.dwTime at the moment of a sample.
InputSamples == {1000, TickModulus - 200}

\* IDLE_MINUTES in hundredths of a minute: "5" (the default), "0.01", "0", "-1".
IdleMinutesValues == {500, 1, 0, -100}

\* The calls of the program on the endpoint volume interface.
GetVolCall(v) == [op |-> "GetMasterVolumeLevelScalar", arg |-> v]
SetMuteCall(b) == [op |-> "SetMute", arg |-> b]
SetVolCall(v) == [op |-> "SetMasterVolumeLevelScalar", arg |-> v]
NoCall == [op |-> "none", arg |-> 0]

-----------------------------------------------------------------------------
(* Pure functions *)

\* A foreign function without a declared restype returns a C int: the raw
\* 32-bit value is read as a signed number.
AsCInt(raw) == IF raw >= TickHalf THEN raw - TickModulus ELSE raw

\* get_idle_seconds: tick_count - lii.dwTime on unbounded Python integers,
\* dwTime being an unsigned field.
GetIdleSeconds(tick_raw, dwTime) == AsCInt(tick_raw) - dwTime

\* idle_threshold = idle_minutes * 60
IdleThreshold(idle_minutes) == idle_minutes * 600

\* if idle_sec >= idle_threshold and not muted_by_us
MuteCondLevel(idle, threshold, muted) == idle >= threshold
MuteCondStrict(idle, threshold, muted) == idle > threshold /\ ~muted
MuteCond(idle, threshold, muted) == idle >= threshold /\ ~muted

\* elif idle_sec < idle_threshold and muted_by_us
RestoreCondAlways(idle, threshold, muted) == idle < threshold
RestoreCond(idle, threshold, muted) == idle < threshold /\ muted

-----------------------------------------------------------------------------
VARIABLES
    mainPc,           \* position of the main thread
    monPc,            \* position of the monitor thread
    idle_threshold,   \* main: idle_threshold
    running,          \* main: running
    muted_by_us,      \* main: muted_by_us
    saved_volume,     \* main: saved_volume (None or a volume)
    idle_sec,         \* monitor_loop: idle_sec of the current tick
    devMute,          \* endpoint mute flag
    devVol,           \* endpoint scalar volume
    calls,            \* history: endpoint calls of the current tick / final pass
    lastWrite,        \* history: last SetMute / SetMasterVolumeLevelScalar call
    snap,             \* history: (muted_by_us, saved_volume) when the pass began
    quitState,        \* history: (muted_by_us, saved_volume) when on_quit ran
    preMuteVol,       \* history: endpoint volume when the last mute began
    preMuteFlag,      \* history: endpoint mute flag when the last mute began
    sampled,          \* history: raw tick counter and dwTime of the last sample
    extVolChanged,    \* history: external volume change since the last mute
    samplesAfterQuit, \* history: idle samples taken after running = False
    transAfterQuit    \* history: tick transitions begun after running = False

vars == <<mainPc, monPc, idle_threshold, running, muted_by_us, saved_volume,
          idle_sec, devMute, devVol, calls, lastWrite, snap, quitState,
          preMuteVol, preMuteFlag, sampled, extVolChanged, samplesAfterQuit,
          transAfterQuit>>

progVars == <<idle_threshold, running, muted_by_us, saved_volume, idle_sec>>
devVars == <<devMute, devVol>>
histVars == <<calls, lastWrite, snap, quitState, preMuteVol, preMuteFlag,
              sampled, extVolChanged, samplesAfterQuit, transAfterQuit>>

Snapshot == [muted |-> muted_by_us, saved |-> saved_volume]
NoSnapshot == [muted |-> FALSE, saved |-> None]

Bump(n) == IF n < MaxAfterQuit THEN n + 1 ELSE n

Init ==
    /\ mainPc = "config"
    /\ monPc = "unstarted"
    /\ idle_threshold = 0
    /\ running = TRUE
    /\ muted_by_us = FALSE
    /\ saved_volume = None
    /\ idle_sec = 0
    /\ devMute \in BOOLEAN
    /\ devVol \in Volumes
    /\ calls = <<>>
    /\ lastWrite = NoCall
    /\ snap = NoSnapshot
    /\ quitState = [quit |-> FALSE, muted |-> FALSE, saved |-> None]
    /\ preMuteVol = None
    /\ preMuteFlag = FALSE
    /\ sampled = [tick |-> 0, dwTime |-> 0]
    /\ extVolChanged = FALSE
    /\ samplesAfterQuit = 0
    /\ transAfterQuit = 0

-----------------------------------------------------------------------------
(* Main thread *)

\* idle_minutes = float(os.getenv("IDLE_MINUTES", "5")); idle_threshold = ...
LoadConfig ==
    /\ mainPc = "config"
    /\ \E idle_minutes \in IdleMinutesValues :
           idle_threshold' = IdleThreshold(idle_minutes)
    /\ mainPc' = "audio"
    /\ UNCHANGED <<monPc, running, muted_by_us, saved_volume, idle_sec>>
    /\ UNCHANGED <<devVars, histVars>>

\* float() raises ValueError on a value that is not a number.
LoadConfigFails ==
    /\ mainPc = "config"
    /\ mainPc' = "failed"
    /\ UNCHANGED <<monPc, progVars, devVars, histVars>>

\* volume = get_audio_session(); muted_by_us = False; saved_volume = None;
\* running = True
AcquireAudio ==
    /\ mainPc = "audio"
    /\ mainPc' = "icon"
    /\ muted_by_us' = FALSE
    /\ saved_volume' = None
    /\ running' = TRUE
    /\ UNCHANGED <<monPc, idle_threshold, idle_sec, devVars, histVars>>

AcquireAudioFails ==
    /\ mainPc = "audio"
    /\ mainPc' = "failed"
    /\ UNCHANGED <<monPc, progVars, devVars, histVars>>

\* icon_image = Image.open(icon_path); tray_icon = pystray.Icon(...)
LoadIcon ==
    /\ mainPc = "icon"
    /\ mainPc' = "thread"
    /\ UNCHANGED <<monPc, progVars, devVars, histVars>>

\* (mutant of LoadIconFails: the monitor thread is started before the icon is loaded)
LoadIconFailsThreadStarted ==
    /\ mainPc = "icon"
    /\ mainPc' = "failed"
    /\ monPc' = "coinit"
    /\ UNCHANGED <<progVars, devVars, histVars>>

LoadIconFails ==
    /\ mainPc = "icon"
    /\ mainPc' = "failed"
    /\ UNCHANGED <<monPc, progVars, devVars, histVars>>

\* monitor_thread = threading.Thread(target=monitor_loop, daemon=True);
\* monitor_thread.start(); tray_icon.run()
StartMonitor ==
    /\ mainPc = "thread"
    /\ mainPc' = "run"
    /\ monPc' = "coinit"
    /\ UNCHANGED <<progVars, devVars, histVars>>

\* on_quit: running = False
\* (mutant of OnQuitFlag: the quit handler resets muted_by_us itself)
OnQuitFlagClears ==
    /\ mainPc = "run"
    /\ mainPc' = "stop"
    /\ running' = FALSE
    /\ quitState' = [quit |-> TRUE, muted |-> muted_by_us, saved |-> saved_volume]
    /\ muted_by_us' = FALSE
    /\ UNCHANGED <<monPc, idle_threshold, saved_volume, idle_sec>>
    /\ UNCHANGED <<devVars, calls, lastWrite, snap, preMuteVol, preMuteFlag, sampled, extVolChanged,
                   samplesAfterQuit, transAfterQuit>>

OnQuitFlag ==
    /\ mainPc = "run"
    /\ mainPc' = "stop"
    /\ running' = FALSE
    /\ quitState' = [quit |-> TRUE, muted |-> muted_by_us, saved |-> saved_volume]
    /\ UNCHANGED <<monPc, idle_threshold, muted_by_us, saved_volume, idle_sec>>
    /\ UNCHANGED <<devVars, calls, lastWrite, snap, preMuteVol, preMuteFlag, sampled, extVolChanged,
                   samplesAfterQuit, transAfterQuit>>

\* on_quit: icon.stop()
OnQuitStop ==
    /\ mainPc = "stop"
    /\ mainPc' = "stopped"
    /\ UNCHANGED <<monPc, progVars, devVars, histVars>>

\* tray_icon.run() returns, main() returns and the process ends; the monitor
\* is a daemon thread that nobody joins, so it ends wherever it is.
ProcessExit ==
    /\ mainPc = "stopped"
    /\ mainPc' = "exited"
    /\ monPc' = IF monPc = "done" THEN "done" ELSE "killed"
    /\ UNCHANGED <<progVars, devVars, histVars>>

Main ==
    \/ LoadConfig
    \/ LoadConfigFails
    \/ AcquireAudio
    \/ AcquireAudioFails
    \/ LoadIcon
    \/ LoadIconFails
    \/ StartMonitor
    \/ OnQuitFlag
    \/ OnQuitStop
    \/ ProcessExit

-----------------------------------------------------------------------------
(* Monitor thread: monitor_loop, one action per statement *)

\* comtypes.CoInitialize()
CoInitialize ==
    /\ monPc = "coinit"
    /\ monPc' = "while"
    /\ UNCHANGED <<mainPc, progVars, devVars, histVars>>

\* while running: (mutant: the flag is only looked at after the final pass)
WhileTestForever ==
    /\ monPc = "while"
    /\ monPc' = "sample"
    /\ UNCHANGED <<mainPc, progVars, devVars, histVars>>

WhileTest ==
    /\ monPc = "while"
    /\ monPc' = IF running THEN "sample" ELSE "final"
    /\ UNCHANGED <<mainPc, progVars, devVars, histVars>>

\* idle_sec = get_idle_seconds()
Sample ==
    /\ monPc = "sample"
    /\ \E tick_raw \in TickSamples, dwTime \in InputSamples :
           /\ idle_sec' = GetIdleSeconds(tick_raw, dwTime)
           /\ sampled' = [tick |-> tick_raw, dwTime |-> dwTime]
    /\ monPc' = "test"
    /\ calls' = <<>>
    /\ snap' = Snapshot
    /\ samplesAfterQuit' = IF running THEN samplesAfterQuit
                           ELSE Bump(samplesAfterQuit)
    /\ UNCHANGED <<mainPc, idle_threshold, running, muted_by_us, saved_volume>>
    /\ UNCHANGED <<devVars, lastWrite, quitState, preMuteVol, preMuteFlag, extVolChanged,
                   transAfterQuit>>

\* if idle_sec >= idle_threshold and not muted_by_us: ...
\* elif idle_sec < idle_threshold and muted_by_us: ...
BranchTest ==
    /\ monPc = "test"
    /\ monPc' = IF MuteCond(idle_sec, idle_threshold, muted_by_us)
                THEN "mute_save"
                ELSE IF RestoreCond(idle_sec, idle_threshold, muted_by_us)
                     THEN "restore_unmute"
                     ELSE "sleep"
    /\ transAfterQuit' =
           IF ~running /\ (\/ MuteCond(idle_sec, idle_threshold, muted_by_us)
                           \/ RestoreCond(idle_sec, idle_threshold, muted_by_us))
           THEN Bump(transAfterQuit)
           ELSE transAfterQuit
    /\ UNCHANGED <<mainPc, progVars, devVars>>
    /\ UNCHANGED <<calls, lastWrite, snap, quitState, preMuteVol, preMuteFlag, sampled, extVolChanged,
                   samplesAfterQuit>>

\* saved_volume = volume.GetMasterVolumeLevelScalar()
MuteSave ==
    /\ monPc = "mute_save"
    /\ monPc' = "mute_set"
    /\ saved_volume' = devVol
    /\ calls' = Append(calls, GetVolCall(devVol))
    /\ preMuteVol' = devVol
    /\ extVolChanged' = FALSE
    /\ UNCHANGED <<mainPc, idle_threshold, running, muted_by_us, idle_sec>>
    /\ UNCHANGED <<devVars, lastWrite, snap, quitState, preMuteFlag, sampled,
                   samplesAfterQuit,
                   transAfterQuit>>

\* volume.SetMute(1, None)
\* (mutant of MuteSet: the level is set to 0 as well)
MuteSetZeroLevel ==
    /\ monPc = "mute_set"
    /\ monPc' = "mute_flag"
    /\ devMute' = TRUE
    /\ devVol' = 0
    /\ preMuteFlag' = devMute
    /\ calls' = Append(calls, SetMuteCall(1))
    /\ lastWrite' = SetMuteCall(1)
    /\ UNCHANGED <<mainPc, progVars>>
    /\ UNCHANGED <<snap, quitState, preMuteVol, sampled, extVolChanged,
                   samplesAfterQuit, transAfterQuit>>

MuteSet ==
    /\ monPc = "mute_set"
    /\ monPc' = "mute_flag"
    /\ devMute' = TRUE
    /\ preMuteFlag' = devMute
    /\ calls' = Append(calls, SetMuteCall(1))
    /\ lastWrite' = SetMuteCall(1)
    /\ UNCHANGED <<mainPc, progVars, devVol>>
    /\ UNCHANGED <<snap, quitState, preMuteVol, sampled, extVolChanged,
                   samplesAfterQuit, transAfterQuit>>

\* muted_by_us = True
MuteFlag ==
    /\ monPc = "mute_flag"
    /\ monPc' = "mute_report"
    /\ muted_by_us' = TRUE
    /\ UNCHANGED <<mainPc, idle_threshold, running, saved_volume, idle_sec>>
    /\ UNCHANGED <<devVars, histVars>>

\* tray_icon.title = ...; print(f"... {saved_volume:.0%} ...")
MuteReport ==
    /\ monPc = "mute_report"
    /\ monPc' = IF saved_volume = None THEN "crashed" ELSE "sleep"
    /\ UNCHANGED <<mainPc, progVars, devVars, histVars>>

\* volume.SetMute(0, None)
\* (mutant of RestoreUnmute: the mute flag found at mute time is put back)
RestoreUnmuteToSaved ==
    /\ monPc = "restore_unmute"
    /\ monPc' = "restore_check"
    /\ devMute' = preMuteFlag
    /\ calls' = Append(calls, SetMuteCall(0))
    /\ lastWrite' = SetMuteCall(0)
    /\ UNCHANGED <<mainPc, progVars, devVol>>
    /\ UNCHANGED <<snap, quitState, preMuteVol, preMuteFlag, sampled, extVolChanged,
                   samplesAfterQuit, transAfterQuit>>

RestoreUnmute ==
    /\ monPc = "restore_unmute"
    /\ monPc' = "restore_check"
    /\ devMute' = FALSE
    /\ calls' = Append(calls, SetMuteCall(0))
    /\ lastWrite' = SetMuteCall(0)
    /\ UNCHANGED <<mainPc, progVars, devVol>>
    /\ UNCHANGED <<snap, quitState, preMuteVol, preMuteFlag, sampled, extVolChanged,
                   samplesAfterQuit, transAfterQuit>>

\* if saved_volume is not None:
RestoreCheck ==
    /\ monPc = "restore_check"
    /\ monPc' = IF saved_volume # None THEN "restore_volume" ELSE "restore_flag"
    /\ UNCHANGED <<mainPc, progVars, devVars, histVars>>

\* volume.SetMasterVolumeLevelScalar(saved_volume, None)
\* (mutant: restores to full volume instead of the saved one)
RestoreVolumeFull ==
    /\ monPc = "restore_volume"
    /\ monPc' = "restore_flag"
    /\ devVol' = VolumeSteps
    /\ calls' = Append(calls, SetVolCall(VolumeSteps))
    /\ lastWrite' = SetVolCall(VolumeSteps)
    /\ UNCHANGED <<mainPc, progVars, devMute>>
    /\ UNCHANGED <<snap, quitState, preMuteVol, preMuteFlag, sampled, extVolChanged,
                   samplesAfterQuit, transAfterQuit>>

\* (mutant of RestoreVolume: a level somebody else changed is left alone)
RestoreVolumeIfUntouched ==
    /\ monPc = "restore_volume"
    /\ monPc' = "restore_flag"
    /\ devVol' = devVol
    /\ calls' = IF devVol = saved_volume
                THEN Append(calls, SetVolCall(saved_volume)) ELSE calls
    /\ lastWrite' = IF devVol = saved_volume
                    THEN SetVolCall(saved_volume) ELSE lastWrite
    /\ UNCHANGED <<mainPc, progVars, devMute>>
    /\ UNCHANGED <<snap, quitState, preMuteVol, preMuteFlag, sampled, extVolChanged,
                   samplesAfterQuit, transAfterQuit>>

RestoreVolume ==
    /\ monPc = "restore_volume"
    /\ monPc' = "restore_flag"
    /\ devVol' = saved_volume
    /\ calls' = Append(calls, SetVolCall(saved_volume))
    /\ lastWrite' = SetVolCall(saved_volume)
    /\ UNCHANGED <<mainPc, progVars, devMute>>
    /\ UNCHANGED <<snap, quitState, preMuteVol, preMuteFlag, sampled, extVolChanged,
                   samplesAfterQuit, transAfterQuit>>

\* muted_by_us = False (mutant: the flag is left set)
RestoreFlagKept ==
    /\ monPc = "restore_flag"
    /\ monPc' = "restore_report"
    /\ UNCHANGED <<mainPc, progVars, devVars, histVars>>

\* (mutant of RestoreFlag: saved_volume is cleared before muted_by_us)
RestoreFlagClearsSaved ==
    /\ monPc = "restore_flag"
    /\ monPc' = "restore_report"
    /\ saved_volume' = None
    /\ UNCHANGED <<mainPc, idle_threshold, running, muted_by_us, idle_sec>>
    /\ UNCHANGED <<devVars, histVars>>

RestoreFlag ==
    /\ monPc = "restore_flag"
    /\ monPc' = "restore_report"
    /\ muted_by_us' = FALSE
    /\ UNCHANGED <<mainPc, idle_threshold, running, saved_volume, idle_sec>>
    /\ UNCHANGED <<devVars, histVars>>

\* print(f"... {saved_volume:.0%}"); tray_icon.title = ...
\* Formatting None with .0% raises TypeError, which ends the thread.
RestoreReport ==
    /\ monPc = "restore_report"
    /\ monPc' = IF saved_volume = None THEN "crashed" ELSE "restore_clear"
    /\ UNCHANGED <<mainPc, progVars, devVars, histVars>>

\* saved_volume = None (mutant: the saved level is kept)
RestoreClearKeeps ==
    /\ monPc = "restore_clear"
    /\ monPc' = "sleep"
    /\ UNCHANGED <<mainPc, progVars, devVars, histVars>>

RestoreClear ==
    /\ monPc = "restore_clear"
    /\ monPc' = "sleep"
    /\ saved_volume' = None
    /\ UNCHANGED <<mainPc, idle_threshold, running, muted_by_us, idle_sec>>
    /\ UNCHANGED <<devVars, histVars>>

\* time.sleep(1)
Sleep ==
    /\ monPc = "sleep"
    /\ monPc' = "while"
    /\ UNCHANGED <<mainPc, progVars, devVars, histVars>>

\* if muted_by_us: (mutant: the final pass repeats the per-tick restore test)
FinalTestIdleGated ==
    /\ monPc = "final"
    /\ monPc' = IF RestoreCond(idle_sec, idle_threshold, muted_by_us)
                THEN "final_unmute" ELSE "uninit"
    /\ calls' = <<>>
    /\ snap' = Snapshot
    /\ UNCHANGED <<mainPc, progVars, devVars>>
    /\ UNCHANGED <<lastWrite, quitState, preMuteVol, preMuteFlag, sampled, extVolChanged,
                   samplesAfterQuit, transAfterQuit>>

\* (mutant of FinalTest: the final pass restores without looking at muted_by_us)
FinalTestAlways ==
    /\ monPc = "final"
    /\ monPc' = "final_unmute"
    /\ calls' = <<>>
    /\ snap' = Snapshot
    /\ UNCHANGED <<mainPc, progVars, devVars>>
    /\ UNCHANGED <<lastWrite, quitState, preMuteVol, preMuteFlag, sampled, extVolChanged,
                   samplesAfterQuit, transAfterQuit>>

FinalTest ==
    /\ monPc = "final"
    /\ monPc' = IF muted_by_us THEN "final_unmute" ELSE "uninit"
    /\ calls' = <<>>
    /\ snap' = Snapshot
    /\ UNCHANGED <<mainPc, progVars, devVars>>
    /\ UNCHANGED <<lastWrite, quitState, preMuteVol, preMuteFlag, sampled, extVolChanged,
                   samplesAfterQuit, transAfterQuit>>

\* volume.SetMute(0, None) (mutant: the final pass only restores the level)
FinalUnmuteSkipped ==
    /\ monPc = "final_unmute"
    /\ monPc' = "final_check"
    /\ UNCHANGED <<mainPc, progVars, devVars, histVars>>

FinalUnmute ==
    /\ monPc = "final_unmute"
    /\ monPc' = "final_check"
    /\ devMute' = FALSE
    /\ calls' = Append(calls, SetMuteCall(0))
    /\ lastWrite' = SetMuteCall(0)
    /\ UNCHANGED <<mainPc, progVars, devVol>>
    /\ UNCHANGED <<snap, quitState, preMuteVol, preMuteFlag, sampled, extVolChanged,
                   samplesAfterQuit, transAfterQuit>>

\* if saved_volume is not None:
FinalCheck ==
    /\ monPc = "final_check"
    /\ monPc' = IF saved_volume # None THEN "final_volume" ELSE "final_report"
    /\ UNCHANGED <<mainPc, progVars, devVars, histVars>>

\* volume.SetMasterVolumeLevelScalar(saved_volume, None)
FinalVolume ==
    /\ monPc = "final_volume"
    /\ monPc' = "final_report"
    /\ devVol' = saved_volume
    /\ calls' = Append(calls, SetVolCall(saved_volume))
    /\ lastWrite' = SetVolCall(saved_volume)
    /\ UNCHANGED <<mainPc, progVars, devMute>>
    /\ UNCHANGED <<snap, quitState, preMuteVol, preMuteFlag, sampled, extVolChanged,
                   samplesAfterQuit, transAfterQuit>>

\* print("[恢复] ...")
\* (mutant of FinalReport: the final pass resets the mute state like the per-tick restore)
FinalReportClears ==
    /\ monPc = "final_report"
    /\ monPc' = "uninit"
    /\ muted_by_us' = FALSE
    /\ saved_volume' = None
    /\ UNCHANGED <<mainPc, idle_threshold, running, idle_sec>>
    /\ UNCHANGED <<devVars, histVars>>

FinalReport ==
    /\ monPc = "final_report"
    /\ monPc' = "uninit"
    /\ UNCHANGED <<mainPc, progVars, devVars, histVars>>

\* comtypes.CoUninitialize(); print("已退出")
CoUninitialize ==
    /\ monPc = "uninit"
    /\ monPc' = "done"
    /\ UNCHANGED <<mainPc, progVars, devVars, histVars>>

Monitor ==
    \/ CoInitialize
    \/ WhileTest
    \/ Sample
    \/ BranchTest
    \/ MuteSave
    \/ MuteSet
    \/ MuteFlag
    \/ MuteReport
    \/ RestoreUnmute
    \/ RestoreCheck
    \/ RestoreVolume
    \/ RestoreFlag
    \/ RestoreReport
    \/ RestoreClear
    \/ Sleep
    \/ FinalTest
    \/ FinalUnmute
    \/ FinalCheck
    \/ FinalVolume
    \/ FinalReport
    \/ CoUninitialize

-----------------------------------------------------------------------------
(* Environment: another actor (the user, another program) on the endpoint *)

ProcessAlive == mainPc \notin {"failed", "exited"}

ExternalSetVolume ==
    /\ ProcessAlive
    /\ \E v \in Volumes :
           /\ v # devVol
           /\ devVol' = v
    /\ extVolChanged' = TRUE
    /\ UNCHANGED <<mainPc, monPc, progVars, devMute>>
    /\ UNCHANGED <<calls, lastWrite, snap, quitState, preMuteVol, preMuteFlag, sampled,
                   samplesAfterQuit, transAfterQuit>>

ExternalSetMute ==
    /\ ProcessAlive
    /\ devMute' = ~devMute
    /\ UNCHANGED <<mainPc, monPc, progVars, devVol, histVars>>

External ==
    \/ ExternalSetVolume
    \/ ExternalSetMute

-----------------------------------------------------------------------------
Next ==
    \/ Main
    \/ Monitor
    \/ External

Spec == Init /\ [][Next]_vars

\* The monitor thread keeps being scheduled while it has a step to take.
FairSpec == Spec /\ WF_vars(Monitor)

TypeOK ==
    /\ mainPc \in {"config", "audio", "icon", "thread", "run", "stop",
                   "stopped", "exited", "failed"}
    /\ running \in BOOLEAN
    /\ muted_by_us \in BOOLEAN
    /\ saved_volume \in Volumes \cup {None}
    /\ devMute \in BOOLEAN
    /\ devVol \in Volumes
    /\ Len(calls) <= 2
    /\ samplesAfterQuit \in 0 .. MaxAfterQuit
    /\ transAfterQuit \in 0 .. MaxAfterQuit

-----------------------------------------------------------------------------
(* Properties *)

\* Positions of the monitor thread inside one tick, after the idle sample.
TickPcs == {"test", "mute_save", "mute_set", "mute_flag", "mute_report",
            "restore_unmute", "restore_check", "restore_volume",
            "restore_flag", "restore_report", "restore_clear", "sleep"}

\* Positions of the monitor thread once it has left the while-loop.
AfterLoopPcs == {"final", "final_unmute", "final_check", "final_volume",
                 "final_report", "uninit", "done", "killed"}

\* A step of the monitor thread itself (every statement moves monPc; the end
\* of the process moves mainPc as well).
MonitorStep == monPc' # monPc /\ mainPc' = mainPc

\* The step makes the endpoint call c.
Called(c) == Len(calls') = Len(calls) + 1 /\ calls'[Len(calls')] = c

\* C1: if quit is issued while muted_by_us is true, the process does not end
\* before the program has cleared the mute flag and set the scalar volume to
\* the saved volume (the last write of the program is that volume restore).
C1_QuitWhileMutedRestores ==
    (mainPc = "exited" /\ quitState.quit /\ quitState.muted)
        => lastWrite = SetVolCall(quitState.saved)

\* C2: a tick whose sample is >= the threshold (equality included) while
\* muted_by_us is false ends with exactly the calls GetMasterVolumeLevelScalar,
\* SetMute(1), with saved_volume the volume the device had at that read and
\* muted_by_us true.
C2_MuteTransition ==
    (monPc = "sleep" /\ idle_sec >= idle_threshold /\ ~snap.muted)
        => /\ calls = <<GetVolCall(preMuteVol), SetMuteCall(1)>>
           /\ saved_volume = preMuteVol
           /\ saved_volume \in Volumes
           /\ muted_by_us

C2_Witness ==
    /\ monPc = "sleep"
    /\ idle_sec = idle_threshold
    /\ ~snap.muted
    /\ muted_by_us
    /\ calls = <<GetVolCall(1), SetMuteCall(1)>>

\* C3: a tick whose sample is < the threshold while muted_by_us is true ends
\* with exactly the calls SetMute(0), SetMasterVolumeLevelScalar(saved volume),
\* with muted_by_us false and saved_volume absent.
C3_RestoreTransition ==
    (monPc = "sleep" /\ idle_sec < idle_threshold /\ snap.muted)
        => /\ calls = <<SetMuteCall(0), SetVolCall(snap.saved)>>
           /\ snap.saved \in Volumes
           /\ ~muted_by_us
           /\ saved_volume = None

C3_Witness ==
    /\ monPc = "sleep"
    /\ idle_sec < idle_threshold
    /\ snap.muted
    /\ snap.saved = 1
    /\ calls = <<SetMuteCall(0), SetVolCall(1)>>
    /\ saved_volume = None

\* C4: in a tick whose sample is < the threshold while muted_by_us is false,
\* no step of the monitor calls the endpoint or changes muted_by_us,
\* saved_volume, the device mute flag or the device volume.
C4_NoOpTick ==
    [][(monPc \in TickPcs /\ idle_sec < idle_threshold /\ ~snap.muted
            /\ MonitorStep)
        => /\ monPc' \in {"sleep", "while"}
           /\ calls = <<>> /\ calls' = <<>>
           /\ UNCHANGED <<muted_by_us, saved_volume, devMute, devVol>>]_vars

C4_Witness ==
    /\ monPc = "sleep"
    /\ idle_sec < idle_threshold
    /\ ~snap.muted
    /\ ~muted_by_us
    /\ devMute
    /\ calls = <<>>

\* C5: once muted_by_us is true, a tick whose sample is >= the threshold makes
\* no endpoint call and leaves muted_by_us and saved_volume alone; and a
\* SetMute(1) call is never preceded by another write than a volume restore.
C5_EdgeTriggered ==
    [][/\ (monPc \in TickPcs /\ idle_sec >= idle_threshold /\ snap.muted
               /\ MonitorStep)
           => /\ monPc' \in {"sleep", "while"}
              /\ calls = <<>> /\ calls' = <<>>
              /\ UNCHANGED <<muted_by_us, saved_volume>>
       /\ Called(SetMuteCall(1))
           => lastWrite.op \in {"none", "SetMasterVolumeLevelScalar"}]_vars

C5_Witness ==
    /\ monPc = "sleep"
    /\ idle_sec = idle_threshold
    /\ snap.muted
    /\ muted_by_us
    /\ saved_volume = snap.saved
    /\ calls = <<>>

\* C6: when the program has restored the volume and nobody else changed the
\* device volume since the mute began, the device volume is the one it had
\* when the mute began.
C6_RoundTrip ==
    (lastWrite.op = "SetMasterVolumeLevelScalar" /\ ~extVolChanged)
        => devVol = preMuteVol

C6_Witness ==
    /\ monPc = "restore_flag"
    /\ lastWrite = SetVolCall(1)
    /\ ~extVolChanged
    /\ preMuteVol = 1
    /\ devVol = 1

\* C7: after the final pass the calls of the pass are SetMute(0),
\* SetMasterVolumeLevelScalar(saved volume) if muted_by_us was true when the
\* pass began and none otherwise, whatever the last idle sample was.
C7_FinalPass ==
    (monPc \in {"uninit", "done"})
        => calls = IF snap.muted
                   THEN <<SetMuteCall(0), SetVolCall(snap.saved)>>
                   ELSE <<>>

C7_Witness ==
    /\ monPc = "done"
    /\ snap.muted
    /\ idle_sec >= idle_threshold
    /\ calls = <<SetMuteCall(0), SetVolCall(1)>>

\* C8: at the loop head, during the sleep and after the final pass
\* saved_volume is present iff muted_by_us is true; the state is
\* (False, None) when the monitor thread starts.
C8_MuteStateInvariant ==
    /\ (monPc \in {"while", "sleep", "uninit", "done"})
           => (saved_volume # None <=> muted_by_us)
    /\ (monPc \in {"unstarted", "coinit"} /\ mainPc \in {"icon", "thread", "run"})
           => (~muted_by_us /\ saved_volume = None)

C8_Witness ==
    /\ monPc = "sleep"
    /\ muted_by_us
    /\ saved_volume = 1

\* C9: after running became false the monitor takes at most one more idle
\* sample and begins at most one more tick transition, and, scheduled fairly,
\* it leaves the while-loop.
C9_AtMostOneMoreTick ==
    /\ [](samplesAfterQuit <= 1 /\ transAfterQuit <= 1)
    /\ (~running ~> monPc \in AfterLoopPcs)

C9_Witness ==
    /\ ~running
    /\ samplesAfterQuit = 1
    /\ transAfterQuit = 1
    /\ monPc = "final"

\* C10: a volume restore call is always directly preceded by the SetMute(0)
\* call of the same restore, in the per-tick restore and in the final pass.
C10_UnmuteBeforeVolume ==
    /\ \A i \in 1 .. Len(calls) :
           calls[i].op = "SetMasterVolumeLevelScalar"
               => (i > 1 /\ calls[i - 1] = SetMuteCall(0))
    /\ (monPc \in {"restore_flag", "restore_report", "restore_clear",
                   "final_report"})
           => /\ Len(calls) = 2
              /\ calls[1] = SetMuteCall(0)
              /\ calls[2].op = "SetMasterVolumeLevelScalar"

C10_Witness ==
    /\ monPc = "final_report"
    /\ calls = <<SetMuteCall(0), SetVolCall(saved_volume)>>

\* A step of the external actor on the endpoint.
ExternalStep ==
    /\ monPc' = monPc
    /\ mainPc' = mainPc
    /\ (devVol' # devVol \/ devMute' # devMute)

\* C11: an external change of the endpoint leaves saved_volume and
\* muted_by_us alone, and every restore still calls SetMute(0) and then sets
\* the device volume to the volume read at mute time, whatever the device
\* volume was changed to in between.
C11_RestoreOverwritesExternal ==
    [][/\ ExternalStep => UNCHANGED <<saved_volume, muted_by_us>>
       /\ (MonitorStep /\ monPc \in {"restore_unmute", "final_unmute"})
           => Called(SetMuteCall(0))
       /\ (MonitorStep /\ monPc \in {"restore_volume", "final_volume"})
           => (Called(SetVolCall(preMuteVol)) /\ devVol' = preMuteVol)
       /\ (MonitorStep /\ monPc' \in {"restore_flag", "final_report"})
           => calls' = <<SetMuteCall(0), SetVolCall(preMuteVol)>>]_vars

C11_Witness ==
    /\ monPc = "restore_flag"
    /\ extVolChanged
    /\ preMuteVol = 1
    /\ saved_volume = 1
    /\ devVol = 1
    /\ calls = <<SetMuteCall(0), SetVolCall(1)>>

\* C12: when startup has failed the monitor thread was never started: no
\* idle sample was taken and no endpoint call was made.
C12_StartupFailureBeforeMonitor ==
    (mainPc = "failed")
        => /\ monPc = "unstarted"
           /\ sampled = [tick |-> 0, dwTime |-> 0]
           /\ calls = <<>>
           /\ lastWrite = NoCall
           /\ ~muted_by_us
           /\ saved_volume = None

C12_Witness ==
    /\ mainPc = "failed"
    /\ idle_threshold = IdleThreshold(500)
    /\ monPc = "unstarted"
    /\ devMute

\* C13: muted_by_us and saved_volume change only in steps of the monitor
\* thread; running changes only in on_quit, from true to false, and never
\* goes back to true.
C13_SingleWriter ==
    [][/\ (muted_by_us' # muted_by_us \/ saved_volume' # saved_volume)
           => MonitorStep
       /\ running' # running
           => (mainPc = "run" /\ mainPc' = "stop" /\ monPc' = monPc)
       /\ ~running => ~running']_vars

C13_Witness ==
    /\ ~running
    /\ mainPc = "stop"
    /\ monPc = "mute_report"
    /\ muted_by_us
    /\ quitState.muted = FALSE

\* C14 as stated: after a final pass that began with muted_by_us true,
\* muted_by_us is false and saved_volume is absent.
C14_FinalPassClearsState ==
    (monPc \in {"uninit", "done"} /\ snap.muted)
        => (~muted_by_us /\ saved_volume = None)

\* C14 as amended: a final pass that began with muted_by_us true restores the
\* endpoint (last write: the saved volume) but leaves the mute state as it
\* was: muted_by_us stays true and saved_volume stays present.
C14_FinalPassKeepsState ==
    /\ (monPc \in {"final_unmute", "final_check", "final_volume",
                   "final_report", "uninit", "done"} /\ snap.muted)
           => (muted_by_us /\ saved_volume = snap.saved
                  /\ saved_volume \in Volumes)
    /\ (monPc \in {"uninit", "done"} /\ snap.muted)
           => lastWrite = SetVolCall(snap.saved)

C14_Witness ==
    /\ monPc = "uninit"
    /\ snap.muted
    /\ muted_by_us
    /\ saved_volume = 1
    /\ lastWrite = SetVolCall(1)

\* C15: in every run that reaches the monitor loop the idle threshold is a
\* positive number of seconds.
C15_ThresholdPositive ==
    (monPc # "unstarted") => idle_threshold > 0

\* C16: the idle time of a sample is the time elapsed since the last input,
\* modulo the width of the tick counter, and so never negative.
C16_IdleIsElapsedTime ==
    (monPc \in TickPcs)
        => /\ idle_sec = (sampled.tick - sampled.dwTime) % TickModulus
           /\ idle_sec >= 0

\* C17: the SetMute calls of the program alternate SetMute(1), SetMute(0),
\* SetMute(1), ... starting with SetMute(1): SetMute(0) is only called right
\* after SetMute(1) and while muted_by_us is true, the volume restore only
\* right after SetMute(0), and SetMute(1) only as the first write or right
\* after a volume restore.
C17_MuteCallsAlternate ==
    [][/\ Called(SetMuteCall(0))
           => (lastWrite = SetMuteCall(1) /\ muted_by_us)
       /\ (\E v \in Volumes : Called(SetVolCall(v)))
           => lastWrite = SetMuteCall(0)
       /\ Called(SetMuteCall(1))
           => (lastWrite.op \in {"none", "SetMasterVolumeLevelScalar"}
                  /\ ~muted_by_us)
       /\ (MonitorStep /\ monPc \in {"restore_unmute", "final_unmute"})
           => muted_by_us]_vars

C17_Witness ==
    /\ monPc = "final_check"
    /\ lastWrite = SetMuteCall(0)
    /\ muted_by_us
    /\ calls = <<SetMuteCall(0)>>

\* C18: in every state, statement by statement, muted_by_us implies that
\* saved_volume is present; saved_volume is present at both restore guards
\* and where the status lines format it, so the thread never fails there.
C18_SavedPresentWhileMuted ==
    /\ muted_by_us => saved_volume \in Volumes
    /\ (monPc \in {"restore_check", "restore_volume", "restore_report",
                   "final_check", "final_volume", "mute_report"})
           => saved_volume \in Volumes
    /\ monPc # "crashed"

C18_Witness ==
    /\ monPc = "restore_report"
    /\ ~muted_by_us
    /\ saved_volume = 1

\* C19: a step of the program changes the device volume only in the volume
\* call of a restore, which writes the volume read at the most recent mute;
\* the mute transition sets the mute flag and leaves the volume unchanged.
C19_VolumeWrittenOnlyByRestore ==
    [][/\ (MonitorStep /\ devVol' # devVol)
           => monPc \in {"restore_volume", "final_volume"}
       /\ \A v \in Volumes :
              Called(SetVolCall(v)) => (v = preMuteVol /\ devVol' = v)
       /\ (MonitorStep /\ monPc \in {"mute_save", "mute_set", "mute_flag",
                                     "mute_report"})
           => UNCHANGED devVol
       /\ Called(SetMuteCall(1)) => devMute']_vars

C19_Witness ==
    /\ monPc = "mute_flag"
    /\ lastWrite = SetMuteCall(1)
    /\ ~extVolChanged
    /\ preMuteVol = VolumeSteps
    /\ devVol = VolumeSteps
    /\ devMute

\* C20: the unmute call of every restore leaves the device mute flag false,
\* also when the flag was already set before the program muted, and the rest
\* of the restore does not touch the flag.
C20_RestoreClearsMuteFlag ==
    [][/\ (MonitorStep /\ monPc \in {"restore_unmute", "final_unmute"})
           => ~devMute'
       /\ (MonitorStep /\ monPc \in {"restore_check", "restore_volume",
                                     "final_check", "final_volume"})
           => UNCHANGED devMute]_vars

C20_Witness ==
    /\ monPc = "restore_check"
    /\ preMuteFlag
    /\ ~devMute
    /\ lastWrite = SetMuteCall(0)

=============================================================================
